---------------------------- MODULE Spec2Model ----------------------------
(***************************************************************************)
(* Model of sensorsafrica/api/v2/views.py: the historical statistics       *)
(* query (SensorDataStatView.get_queryset), the response shaper            *)
(* (CustomPagination.get_paginated_response) and the fleet status view     *)
(* (NodesView.list).                                                       *)
(*                                                                         *)
(* Texts (query parameters, stored value texts, value types, city names)   *)
(* are sequences of one-character strings, so that parsing, splitting,     *)
(* upper-casing and pattern matching are computed character by character.  *)
(* Timestamps are seconds since 1970-01-01T00:00:00Z.                      *)
(***************************************************************************)
EXTENDS Integers, Sequences, FiniteSets, TLC

(***************************************************************************)
(* Bounds of the model.                                                    *)
(***************************************************************************)
MaxLen == 4

MaxReadings == 3

MaxPage == 3

MaxNodes == 2

(***************************************************************************)
(* Text helpers.                                                           *)
(***************************************************************************)
Digits == <<"0", "1", "2", "3", "4", "5", "6", "7", "8", "9">>

IsDigit(c) == \E i \in 1..10 : Digits[i] = c

\* the value of a digit (0 for any other character)
DigitValue(c) == IF IsDigit(c) THEN (CHOOSE i \in 1..10 : Digits[i] = c) - 1 ELSE 0

\* \d+ : one or more digits, and nothing else
AllDigits(s) == Len(s) >= 1 /\ \A i \in 1..Len(s) : IsDigit(s[i])

\* \d* : zero or more digits
AllDigitsOrEmpty(s) == \A i \in 1..Len(s) : IsDigit(s[i])

(***************************************************************************)
(* The numeric validity pattern  ^\-?\d+(\.?\d+)?$  of both queries.        *)
(* A match is a way to cut the text into the pattern's pieces: an optional *)
(* "-", a non-empty digit run, and optionally a group made of an optional  *)
(* "." and a non-empty digit run.  SqlGroupLoose is the group written      *)
(* with a digit run that may be empty, which lets a trailing "." through.  *)
(***************************************************************************)
\* historical-stats query: the group (\.?\d+) matched against the whole of s
SqlGroupLoose(s) ==
    \/ AllDigitsOrEmpty(s)
    \/ Len(s) >= 1 /\ s[1] = "." /\ AllDigitsOrEmpty(Tail(s))

SqlGroup(s) ==
    \/ AllDigits(s)
    \/ Len(s) >= 1 /\ s[1] = "." /\ AllDigits(Tail(s))

\* \d+(\.?\d+)?$ matched against the whole of s
SqlDigitsThenGroup(s) ==
    \E n \in 1..Len(s) :
        /\ AllDigits(SubSeq(s, 1, n))
        /\ \/ n = Len(s)
           \/ SqlGroup(SubSeq(s, n + 1, Len(s)))

\* views.py line 169:  v.value ~ '^\\-?\\d+(\\.?\\d+)?$'
\* (^\-? : the sign is consumed or not)
SqlNumericFilter(t) ==
    \/ SqlDigitsThenGroup(t)
    \/ Len(t) >= 1 /\ t[1] = "-" /\ SqlDigitsThenGroup(Tail(t))

\* fleet-status query: the same pieces of its own pattern
OrmGroup(s) ==
    \/ AllDigits(s)
    \/ Len(s) >= 1 /\ s[1] = "." /\ AllDigits(Tail(s))

OrmDigitsThenGroup(s) ==
    \E n \in 1..Len(s) :
        /\ AllDigits(SubSeq(s, 1, n))
        /\ \/ n = Len(s)
           \/ OrmGroup(SubSeq(s, n + 1, Len(s)))

\* views.py line 230:  Q(value__regex=r"^\-?\d+(\.?\d+)?$")
OrmNumericFilter(t) ==
    \/ OrmDigitsThenGroup(t)
    \/ Len(t) >= 1 /\ t[1] = "-" /\ OrmDigitsThenGroup(Tail(t))

(***************************************************************************)
(* Optional texts.  request.query_params.get(name, None) gives None or a   *)
(* text; None is a one-element tuple whose element is not a character.     *)
(* Truthy is Python's truth value of such a result: neither None nor "".   *)
(***************************************************************************)
None == <<"None">>

Truthy(v) == v # None /\ v # <<>>

\* str.split(sep): the fields between the separators, "" giving one empty field
RECURSIVE Split(_, _)
Split(s, sep) ==
    IF \A i \in 1..Len(s) : s[i] # sep
    THEN <<s>>
    ELSE LET i == CHOOSE j \in 1..Len(s) :
                      s[j] = sep /\ \A l \in 1..(j - 1) : s[l] # sep
         IN  <<SubSeq(s, 1, i - 1)>> \o Split(SubSeq(s, i + 1, Len(s)), sep)

Elements(q) == {q[i] : i \in 1..Len(q)}

LowerCase == <<"a", "b", "c", "d", "e", "f", "g", "h", "i", "j", "k", "l", "m", "n", "o", "p", "q", "r", "s", "t", "u", "v", "w", "x", "y", "z">>

UpperCase == <<"A", "B", "C", "D", "E", "F", "G", "H", "I", "J", "K", "L", "M", "N", "O", "P", "Q", "R", "S", "T", "U", "V", "W", "X", "Y", "Z">>

\* str.upper() on one character, then on a text
UpperChar(c) ==
    IF \E i \in 1..26 : LowerCase[i] = c
    THEN UpperCase[CHOOSE i \in 1..26 : LowerCase[i] = c]
    ELSE c

Upper(s) == [i \in 1..Len(s) |-> UpperChar(s[i])]

\* the decimal value of a digit run
RECURSIVE ParseInt(_)
ParseInt(s) ==
    IF Len(s) = 0 THEN 0
    ELSE 10 * ParseInt(SubSeq(s, 1, Len(s) - 1)) + DigitValue(s[Len(s)])

(***************************************************************************)
(* Dates.  datetime.strptime(text, "%Y-%m-%d"): %Y is four digits, %m is   *)
(* 1[0-2]|0[1-9]|[1-9], %d is 3[01]|[12]\d|0[1-9]|[1-9], the whole text    *)
(* must be consumed, and the date must exist in the proleptic Gregorian    *)
(* calendar.  (The alphabet of the inputs has no blank, so the " [1-9]"    *)
(* form of %d does not arise.)                                             *)
(***************************************************************************)
IsLeap(y) == y % 4 = 0 /\ (y % 100 # 0 \/ y % 400 = 0)

DaysInMonth(y, m) ==
    IF m = 2 THEN (IF IsLeap(y) THEN 29 ELSE 28)
    ELSE IF m \in {4, 6, 9, 11} THEN 30 ELSE 31

RECURSIVE DaysBeforeMonth(_, _)
DaysBeforeMonth(y, m) ==
    IF m = 1 THEN 0 ELSE DaysBeforeMonth(y, m - 1) + DaysInMonth(y, m - 1)

\* days from 1970-01-01 to y-m-d (date.toordinal() minus that of the epoch)
EpochDay(y, m, d) ==
    LET p == y - 1
    IN  (p * 365 + (p \div 4) - (p \div 100) + (p \div 400)
         + DaysBeforeMonth(y, m) + d) - 719163

\* one or two digits standing for a number of lo..hi, as %m and %d match them
IsField(f, hi) ==
    /\ AllDigits(f)
    /\ Len(f) <= 2
    /\ ParseInt(f) >= 1
    /\ ParseInt(f) <= hi

StrptimeOk(date_text) ==
    LET f == Split(date_text, "-")
    IN  /\ Len(f) = 3
        /\ Len(f[1]) = 4 /\ AllDigits(f[1]) /\ ParseInt(f[1]) >= 1
        /\ IsField(f[2], 12)
        /\ IsField(f[3], 31)
        /\ ParseInt(f[3]) <= DaysInMonth(ParseInt(f[1]), ParseInt(f[2]))

\* the parsed date at 00:00:00, as seconds since the epoch
Strptime(date_text) ==
    LET f == Split(date_text, "-")
    IN  EpochDay(ParseInt(f[1]), ParseInt(f[2]), ParseInt(f[3])) * 86400

\* views.py 33-34: timezone.now() with the time of day zeroed
beginning_of_today(t) == t - (t % 86400)

\* views.py 37-38
end_of_today(t) == beginning_of_today(t) + 24 * 3600

\* views.py 41-42
beginning_of_day(from_date_text) == Strptime(from_date_text)

\* end_of_day without its 24 hours
end_of_day_same_midnight(to_date_text) == beginning_of_day(to_date_text)

\* views.py 45-46
end_of_day(to_date_text) == beginning_of_day(to_date_text) + 24 * 3600

\* views.py 49-53: TRUE when validate_date returns, FALSE when it raises
validate_date(date_text) == StrptimeOk(date_text)

(***************************************************************************)
(* Texts of the program and of the inputs.                                 *)
(***************************************************************************)
P1 == <<"P", "1">>
P2 == <<"P", "2">>
humidity == <<"h", "u", "m", "i", "d", "i", "t", "y">>
temperature == <<"t", "e", "m", "p", "e", "r", "a", "t", "u", "r", "e">>
durP1 == <<"d", "u", "r", "P", "1">>

\* views.py 30: value_types = {"air": ["P1", "P2", "humidity", "temperature"]}
value_types == [air |-> <<P1, P2, humidity, temperature>>]

Nairobi == <<"N", "a", "i", "r", "o", "b", "i">>
DarEsSalaam == <<"D", "a", "r", " ", "e", "s", " ", "S", "a", "l", "a", "a", "m">>

minute == <<"m", "i", "n", "u", "t", "e">>
hour == <<"h", "o", "u", "r">>
day == <<"d", "a", "y">>
month == <<"m", "o", "n", "t", "h">>

\* sensors_sensorlocation rows: the sites readings and nodes refer to
SensorLocation ==
    [l \in 1..3 |->
        IF l = 1 THEN [location |-> "Kibera", longitude |-> 36, latitude |-> -1,
                       city |-> Nairobi]
        ELSE IF l = 2 THEN [location |-> "Karen", longitude |-> 37, latitude |-> -2,
                            city |-> Nairobi]
        ELSE [location |-> "Ilala", longitude |-> 39, latitude |-> -6,
              city |-> DarEsSalaam]]

\* seconds since the epoch of y-m-d hh:mi:ss UTC
Ts(y, m, d, hh, mi, ss) == EpochDay(y, m, d) * 86400 + hh * 3600 + mi * 60 + ss

\* a sensors_sensordatavalue row joined to its sensordata row
Reading(ts, vt, val, loc, sensor) ==
    [timestamp |-> ts, value_type |-> vt, value |-> val, location |-> loc,
     sensor |-> sensor]

\* the moments requests are served at: 2023-01-05T10:30:00Z
Nows == {Ts(2023, 1, 5, 10, 30, 0)}

\* the readings a database is drawn from: around the ends of the windows,
\* numeric and not, of allowed and other value types, in two cities
ReadingPool ==
    { Reading(Ts(2022, 12, 31, 23, 59, 59), P1, <<"1", "2">>, 1, 1),
      Reading(Ts(2023, 1, 1, 0, 0, 0), P1, <<"1", "2">>, 1, 1),
      Reading(Ts(2023, 1, 3, 10, 15, 0), P1, <<"7", ".", "5">>, 1, 1),
      Reading(Ts(2023, 1, 3, 10, 15, 30), P1, <<"1", "e">>, 1, 1),
      Reading(Ts(2023, 1, 3, 10, 40, 0), P1, <<"-", "3">>, 2, 2),
      Reading(Ts(2023, 1, 3, 10, 15, 0), temperature, <<"n", "a", "n">>, 1, 1),
      Reading(Ts(2023, 1, 3, 23, 59, 59), humidity, <<"4", "0">>, 3, 3),
      Reading(Ts(2023, 1, 4, 0, 0, 0), humidity, <<"4", "1", ".", "5">>, 3, 3),
      Reading(Ts(2023, 1, 4, 12, 0, 0), durP1, <<"3">>, 1, 1),
      Reading(Ts(2023, 1, 5, 0, 0, 0), P2, <<"9">>, 1, 1),
      Reading(Ts(2023, 1, 5, 10, 30, 0), P1, <<"5">>, 2, 2) }

(***************************************************************************)
(* The aggregation query of get_queryset (views.py 152-187).               *)
(* CAST("value" as float) is kept exact, in hundredths; an average is the  *)
(* pair of the sum and the count that the query divides.                   *)
(***************************************************************************)
CastFloat(t) ==
    LET neg  == Len(t) >= 1 /\ t[1] = "-"
        body == IF neg THEN Tail(t) ELSE t
        f    == Split(body, ".")
        frac == IF Len(f) < 2 \/ Len(f[2]) = 0 THEN 0
                ELSE IF Len(f[2]) = 1 THEN 10 * ParseInt(f[2])
                ELSE ParseInt(SubSeq(f[2], 1, 2))
        abs  == 100 * ParseInt(f[1]) + frac
    IN  IF neg THEN 0 - abs ELSE abs

\* first instants of the months of the years the readings lie in
MonthStarts == {EpochDay(y, m, 1) * 86400 : y \in 2022..2024, m \in 1..12}

DateTruncUnits == {minute, hour, day, month}

\* views.py 178: DATE_TRUNC(%(trunc)s, sd."timestamp"), in UTC
DateTrunc(trunc, ts) ==
    IF trunc = minute THEN ts - (ts % 60)
    ELSE IF trunc = hour THEN ts - (ts % 3600)
    ELSE IF trunc = day THEN ts - (ts % 86400)
    ELSE CHOOSE s \in MonthStarts :
             s <= ts /\ \A u \in MonthStarts : u <= ts => u <= s

\* sl.city of the row's location (views.py 166)
CityOf(r) == SensorLocation[r.location].city

\* the WHERE clause without its numeric predicate
WhereUnfiltered(r, fvt, cities, lo, hi) ==
    /\ r.value_type \in fvt
    /\ (Len(cities) > 0 => CityOf(r) \in Elements(cities))
    /\ r.timestamp >= lo
    /\ r.timestamp <= hi

\* views.py 167-176: the WHERE clause
Where(r, fvt, cities, lo, hi) ==
    /\ r.value_type \in fvt
    /\ SqlNumericFilter(r.value)
    /\ (Len(cities) > 0 => CityOf(r) \in Elements(cities))
    /\ r.timestamp >= lo
    /\ r.timestamp <= hi

RECURSIVE SumValues(_)
SumValues(G) ==
    IF G = {} THEN 0
    ELSE LET r == CHOOSE x \in G : TRUE
         IN  CastFloat(r.value) + SumValues(G \ {r})

MinOf(S) == CHOOSE x \in S : \A y \in S : x <= y

MaxOf(S) == CHOOSE x \in S : \A y \in S : y <= x

\* views.py 155-161: the SELECT list over one group (the debug column,
\* a concatenation of the group's values and timestamps, is left out)
BucketRow(G) ==
    LET r == CHOOSE x \in G : TRUE
    IN  [city_name      |-> CityOf(r),
         start_datetime |-> MinOf({x.timestamp : x \in G}),
         end_datetime   |-> MaxOf({x.timestamp : x \in G}),
         average        |-> [sum |-> SumValues(G), count |-> Cardinality(G)],
         minimum        |-> MinOf({CastFloat(x.value) : x \in G}),
         maximum        |-> MaxOf({CastFloat(x.value) : x \in G}),
         value_type     |-> r.value_type]

\* views.py 177-180: GROUP BY truncated timestamp, value type and city
GroupKey(r, trunc) == <<DateTrunc(trunc, r.timestamp), r.value_type, CityOf(r)>>

Aggregate(rows, fvt, cities, lo, hi, trunc) ==
    LET admitted == {r \in rows : Where(r, fvt, cities, lo, hi)}
        keys     == {GroupKey(r, trunc) : r \in admitted}
    IN  {BucketRow({r \in admitted : GroupKey(r, trunc) = k}) : k \in keys}

(***************************************************************************)
(* Steps of get_queryset that do not touch the state by themselves.        *)
(***************************************************************************)
\* the checks of 119-127 in another order: the formats first
ValidationFormatFirst(from, to) ==
    IF Truthy(from) /\ ~validate_date(from) THEN "from"
    ELSE IF Truthy(to) /\ ~validate_date(to) THEN "to"
    ELSE IF Truthy(to) /\ ~Truthy(from) THEN "from"
    ELSE "ok"

\* views.py 119-127: the key of the ValidationError raised, or "ok"
Validation(from, to) ==
    IF Truthy(to) /\ ~Truthy(from) THEN "from"
    ELSE IF Truthy(from) /\ ~validate_date(from) THEN "from"
    ELSE IF Truthy(to) /\ ~validate_date(to) THEN "to"
    ELSE "ok"

\* views.py 132-136, for a sensor_type the registry knows
FilterValueTypes(st, value_type_to_filter) ==
    IF Truthy(value_type_to_filter)
    THEN Elements(Split(Upper(value_type_to_filter), ","))
             \cap {Upper(x) : x \in Elements(value_types[st])}
    ELSE Elements(value_types[st])

\* views.py 117: query_params.get("avg", 'day')
AvgOf(q) == IF q.avg = None THEN day ELSE q.avg

VARIABLES
    text,       \* a stored value text under test
    checked,    \* whether the two filters have been applied to text
    sqlOk,      \* verdict of the historical-stats predicate
    ormOk,      \* verdict of the fleet-status predicate
    sensor_type,        \* self.kwargs["sensor_type"]
    query_params,       \* self.request.query_params: from, to, value_type, city, avg
    now,                \* timezone.now() while the request is served
    db,                 \* the readings stored
    pc,                 \* where get_queryset stands
    from_date,          \* lower end of the window, once resolved
    to_date,            \* upper end of the window, once resolved
    filter_value_types, \* the value types handed to the query
    city_names,         \* the cities handed to the query
    outcome,            \* "pending", "ok" or the exception that ended the request
    detail,             \* the key of a ValidationError
    executed,           \* whether cursor.execute was called
    res,                \* cursor.fetchall()
    shape_from,         \* query_params.get("from", None) as the shaper reads it
    data_stats,         \* the page of serialized rows handed to the shaper
    shape_k,            \* the row the shaper's loop stands at
    results,            \* the shaper's mapping, by city name
    city_order,         \* the keys of results in insertion order
    shape_pc,           \* "loop" or "responded"
    page_response,      \* the body of the paginated response
    last_active_nodes,  \* LastActiveNodes.objects.iterator(), in its order
    node_table,         \* the Node rows, by id
    fleet_k,            \* the snapshot NodesView.list stands at
    nodes,              \* the list NodesView.list builds
    fleet_pc,           \* "loop", "responded" or "error"
    fleet_response      \* the body of the response, or the exception

regexVars == <<text, checked, sqlOk, ormOk>>

statsVars == <<sensor_type, query_params, now, db, pc, from_date, to_date,
               filter_value_types, city_names, outcome, detail, executed, res>>

shapeVars == <<shape_from, data_stats, shape_k, results, city_order, shape_pc,
               page_response>>

fleetVars == <<last_active_nodes, node_table, fleet_k, nodes, fleet_pc,
               fleet_response>>

vars == <<regexVars, statsVars, shapeVars, fleetVars>>

RegexIdle ==
    /\ text = <<>>
    /\ checked = FALSE
    /\ sqlOk = FALSE
    /\ ormOk = FALSE

ShapeIdle ==
    /\ shape_from = None
    /\ data_stats = <<>>
    /\ shape_k = 1
    /\ results = <<>>
    /\ city_order = <<>>
    /\ shape_pc = "idle"
    /\ page_response = <<>>

FleetIdle ==
    /\ last_active_nodes = <<>>
    /\ node_table = <<>>
    /\ fleet_k = 1
    /\ nodes = <<>>
    /\ fleet_pc = "idle"
    /\ fleet_response = <<>>

StatsIdle ==
    /\ sensor_type = "air"
    /\ query_params = [from |-> None, to |-> None, value_type |-> None,
                       city |-> None, avg |-> None]
    /\ now \in Nows
    /\ db = {}
    /\ pc = "idle"
    /\ from_date = 0
    /\ to_date = 0
    /\ filter_value_types = {}
    /\ city_names = <<>>
    /\ outcome = "pending"
    /\ detail = ""
    /\ executed = FALSE
    /\ res = {}

(***************************************************************************)
(* get_queryset, step by step.                                             *)
(***************************************************************************)
Raise(exception, key) ==
    /\ pc' = "done"
    /\ outcome' = exception
    /\ detail' = key

\* views.py 119-127
Validate ==
    /\ pc = "start"
    /\ LET v == Validation(query_params.from, query_params.to)
       IN  IF v = "ok"
           THEN pc' = "validated" /\ UNCHANGED <<outcome, detail>>
           ELSE Raise("ValidationError", v)
    /\ UNCHANGED <<sensor_type, query_params, now, db, from_date, to_date,
                   filter_value_types, city_names, executed, res>>
    /\ UNCHANGED <<regexVars, shapeVars, fleetVars>>

\* views.py 129-136: value_types[sensor_type] raises KeyError for an unknown key
SelectValueTypes ==
    /\ pc = "validated"
    /\ IF sensor_type \in DOMAIN value_types
       THEN /\ filter_value_types' =
                   FilterValueTypes(sensor_type, query_params.value_type)
            /\ pc' = "selected"
            /\ UNCHANGED <<outcome, detail>>
       ELSE /\ Raise("KeyError", "")
            /\ UNCHANGED filter_value_types
    /\ UNCHANGED <<sensor_type, query_params, now, db, from_date, to_date,
                   city_names, executed, res>>
    /\ UNCHANGED <<regexVars, shapeVars, fleetVars>>

\* views.py 138-150
ResolveWindow ==
    /\ pc = "selected"
    /\ IF ~Truthy(query_params.from) /\ ~Truthy(query_params.to)
       THEN /\ to_date' = now
            /\ from_date' = now - 24 * 3600
       ELSE IF ~Truthy(query_params.to)
       THEN /\ from_date' = beginning_of_day(query_params.from)
            /\ to_date' = beginning_of_today(now)
       ELSE /\ from_date' = beginning_of_day(query_params.from)
            /\ to_date' = end_of_day(query_params.to)
    /\ city_names' = IF Truthy(query_params.city)
                     THEN Split(query_params.city, ",") ELSE <<>>
    /\ pc' = "resolved"
    /\ UNCHANGED <<sensor_type, query_params, now, db, filter_value_types,
                   outcome, detail, executed, res>>
    /\ UNCHANGED <<regexVars, shapeVars, fleetVars>>

\* views.py 152-192.  An empty tuple is rendered as "IN ()", which the
\* database rejects; DATE_TRUNC rejects an unknown unit on the first row
\* it is evaluated for.
ExecuteQuery ==
    /\ pc = "resolved"
    /\ executed' = TRUE
    /\ pc' = "done"
    /\ detail' = ""
    /\ IF filter_value_types = {}
       THEN outcome' = "ProgrammingError" /\ res' = {}
       ELSE IF /\ AvgOf(query_params) \notin DateTruncUnits
               /\ \E r \in db : Where(r, filter_value_types, city_names,
                                      from_date, to_date)
       THEN outcome' = "DataError" /\ res' = {}
       ELSE /\ outcome' = "ok"
            /\ res' = Aggregate(db, filter_value_types, city_names,
                                from_date, to_date, AvgOf(query_params))
    /\ UNCHANGED <<sensor_type, query_params, now, db, from_date, to_date,
                   filter_value_types, city_names>>
    /\ UNCHANGED <<regexVars, shapeVars, fleetVars>>

NextStats == Validate \/ SelectValueTypes \/ ResolveWindow \/ ExecuteQuery

(***************************************************************************)
(* The requests and databases the specifications start from.               *)
(***************************************************************************)
MalformedFrom == <<"0", "1", "/", "0", "1", "/", "2", "0", "2", "3">>
ImpossibleTo == <<"2", "0", "2", "3", "-", "0", "2", "-", "3", "0">>
Jan1 == <<"2", "0", "2", "3", "-", "0", "1", "-", "0", "1">>
Jan3 == <<"2", "0", "2", "3", "-", "0", "1", "-", "0", "3">>
Jan3Short == <<"2", "0", "2", "3", "-", "1", "-", "3">>
Feb29 == <<"2", "0", "2", "4", "-", "0", "2", "-", "2", "9">>
Era == <<"e", "r", "a">>

FromInputs == {None, <<>>, Jan1, Jan3Short, MalformedFrom}

ToInputs == {None, <<>>, Jan3, Feb29, ImpossibleTo}

ValueTypeInputs == {None, P1, humidity, <<"p", "2", ",", "P", "1">>, <<"n", "o">>}

CityInputs == {None, Nairobi, <<"N", "a", "i", "r", "o", "b", "i", ",", "D", "a", "r", " ", "e", "s", " ", "S", "a", "l", "a", "a", "m">>}

Databases(n) == {S \in SUBSET ReadingPool : Cardinality(S) <= n}

StatsStart(sensor_types, froms, tos, vts, cities, avgs, dbs) ==
    /\ sensor_type \in sensor_types
    /\ query_params \in [from : froms, to : tos, value_type : vts,
                         city : cities, avg : avgs]
    /\ now \in Nows
    /\ db \in dbs
    /\ pc = "start"
    /\ from_date = 0
    /\ to_date = 0
    /\ filter_value_types = {}
    /\ city_names = <<>>
    /\ outcome = "pending"
    /\ detail = ""
    /\ executed = FALSE
    /\ res = {}

(***************************************************************************)
(* Specification Spec: every request over the inputs above, against a      *)
(* database of at most one reading.                                        *)
(***************************************************************************)
Init ==
    /\ StatsStart({"air", "water"}, FromInputs, ToInputs, ValueTypeInputs,
                  CityInputs, {None, hour, Era}, Databases(1))
    /\ RegexIdle /\ ShapeIdle /\ FleetIdle

Next == NextStats

Spec == Init /\ [][Next]_vars

(***************************************************************************)
(* Specification SpecAgg: well-formed requests for "air" against every     *)
(* database of at most MaxReadings readings of the pool.                   *)
(***************************************************************************)
InitAgg ==
    /\ StatsStart({"air"}, {None, Jan1}, {None, Jan3}, {None, P1, humidity},
                  {None, Nairobi}, {None, minute, hour, month, Era},
                  Databases(MaxReadings))
    /\ RegexIdle /\ ShapeIdle /\ FleetIdle

SpecAgg == InitAgg /\ [][NextStats]_vars

(***************************************************************************)
(* Specification SpecFilter: every text over ValueAlphabet of length at    *)
(* most MaxLen is built character by character and put through both        *)
(* predicates.                                                             *)
(***************************************************************************)
ValueAlphabet == {"0", "7", "-", ".", "e"}

TypeChar ==
    /\ Len(text) < MaxLen
    /\ \E c \in ValueAlphabet : text' = Append(text, c)
    /\ checked' = FALSE
    /\ sqlOk' = FALSE
    /\ ormOk' = FALSE
    /\ UNCHANGED <<statsVars, shapeVars, fleetVars>>

ApplyFilters ==
    /\ ~checked
    /\ checked' = TRUE
    /\ sqlOk' = SqlNumericFilter(text)
    /\ ormOk' = OrmNumericFilter(text)
    /\ UNCHANGED text
    /\ UNCHANGED <<statsVars, shapeVars, fleetVars>>

InitFilter == RegexIdle /\ StatsIdle /\ ShapeIdle /\ FleetIdle

NextFilter == TypeChar \/ ApplyFilters

SpecFilter == InitFilter /\ [][NextFilter]_vars

\* ^-?\d+(\.\d+)?$ stated on positions: the digits before and after the dot
IsSignedDecimal(t) ==
    LET body == IF Len(t) >= 1 /\ t[1] = "-" THEN Tail(t) ELSE t
        dots == {i \in 1..Len(body) : body[i] = "."}
    IN  /\ Len(body) >= 1
        /\ \A i \in 1..Len(body) : IsDigit(body[i]) \/ body[i] = "."
        /\ Cardinality(dots) <= 1
        /\ \A i \in dots : 1 < i /\ i < Len(body)

(***************************************************************************)
(* C4: a text is accepted by the historical-stats predicate and by the     *)
(* fleet-status predicate if and only if it is an optional "-", one or     *)
(* more digits, and optionally a "." followed by one or more digits        *)
(* (^-?\d+(\.\d+)?$); so both paths admit the same texts.                  *)
(***************************************************************************)
C4_FiltersMatchSignedDecimal ==
    checked => /\ sqlOk = IsSignedDecimal(text)
               /\ ormOk = IsSignedDecimal(text)

\* a text with a fractional part has been accepted by both paths
C4_Witness ==
    /\ checked /\ sqlOk /\ ormOk
    /\ \E i \in 1..Len(text) : text[i] = "."
    /\ text[1] = "-"

(***************************************************************************)
(* Claims about get_queryset.                                              *)
(***************************************************************************)
WindowResolved == pc = "resolved" \/ (pc = "done" /\ executed)

RejectedForFrom ==
    /\ outcome = "ValidationError"
    /\ detail = "from"
    /\ ~executed

C2_WindowIsHalfOpen ==
    (pc = "done" /\ outcome = "ok" /\ Truthy(query_params.from))
        => \A row \in res : /\ from_date <= row.start_datetime
                            /\ row.end_datetime < to_date

\* the instants of 00:00:00 UTC of the dates of the inputs, from a calendar
KnownMidnight(date_text) ==
    CASE date_text = Jan1 -> 1672531200
      [] date_text = Jan3 -> 1672704000
      [] date_text = Jan3Short -> 1672704000
      [] date_text = Feb29 -> 1709164800

\* C3: with "from" and "to" both supplied and well formed, the window
\* starts at 00:00:00 UTC of the "from" day and ends 24 hours after
\* 00:00:00 UTC of the "to" day, whatever the granularity.
C3_WindowOfTwoDates ==
    (WindowResolved /\ Truthy(query_params.from) /\ Truthy(query_params.to))
        => /\ from_date = KnownMidnight(query_params.from)
           /\ to_date = KnownMidnight(query_params.to) + 24 * 3600
           /\ from_date % 86400 = 0
           /\ to_date % 86400 = 0

\* from 2023-01-01 to 2023-01-03 by the hour: 2023-01-01T00:00Z to
\* 2023-01-04T00:00Z
C3_Witness ==
    /\ pc = "resolved"
    /\ query_params.from = Jan1
    /\ query_params.to = Jan3
    /\ query_params.avg = hour
    /\ from_date = 1672531200
    /\ to_date = 1672790400

NumericReadings(rows) == {r \in rows : IsSignedDecimal(r.value)}

\* C5: every bucket is computed from at least one reading, all of them
\* numeric, of the bucket's value type and city; and the buckets are those
\* of the database without its non-numeric readings, so a group of
\* non-numeric readings gives no bucket and a non-numeric reading changes
\* no average, minimum or maximum.
C5_BucketsFromNumericReadings ==
    (pc = "done" /\ outcome = "ok")
        => /\ \A row \in res :
                  \E G \in SUBSET NumericReadings(db) :
                      /\ G # {}
                      /\ \A r \in G : /\ r.value_type = row.value_type
                                      /\ CityOf(r) = row.city_name
                      /\ row.average.count = Cardinality(G)
                      /\ row.average.sum = SumValues(G)
                      /\ row.minimum = MinOf({CastFloat(r.value) : r \in G})
                      /\ row.maximum = MaxOf({CastFloat(r.value) : r \in G})
           /\ res = Aggregate(NumericReadings(db), filter_value_types,
                              city_names, from_date, to_date,
                              AvgOf(query_params))

\* a bucket by the minute whose group held "7.5" and "1e", and a group of
\* "nan" alone that gave no bucket
C5_Witness ==
    /\ pc = "done" /\ outcome = "ok"
    /\ query_params.avg = minute
    /\ \E r \in db : r.value = <<"1", "e">> /\ r.value_type \in filter_value_types
    /\ \E r \in db : r.value_type = temperature /\ ~IsSignedDecimal(r.value)
    /\ temperature \in filter_value_types
    /\ \E row \in res : /\ row.value_type = P1
                        /\ row.average = [sum |-> 750, count |-> 1]
    /\ \A row \in res : row.value_type # temperature

\* C9: a request for a sensor_type the registry does not know ends in
\* Not Found, and no query is executed.  (Stated for the requests whose
\* dates pass the validation, which comes first.)
C9_UnknownSensorTypeNotFound ==
    (/\ pc = "done"
     /\ sensor_type \notin DOMAIN value_types
     /\ Validation(query_params.from, query_params.to) = "ok")
        => outcome = "NotFound" /\ ~executed

\* the allowed value types named in the filter, whatever their case
NamedAllowed(st, value_type_to_filter) ==
    {x \in Elements(value_types[st]) :
        Upper(x) \in Elements(Split(Upper(value_type_to_filter), ","))}

\* C10: with a value_type filter, the value types handed to the query are
\* the allowed value types named in the filter, as readings store them,
\* and there is at least one.  (Stated for the filters that name at least
\* one allowed value type.)
C10_FilterSelectsStoredTypes ==
    (/\ pc \in {"selected", "resolved"}
     /\ Truthy(query_params.value_type)
     /\ NamedAllowed(sensor_type, query_params.value_type) # {})
        => /\ filter_value_types =
                  NamedAllowed(sensor_type, query_params.value_type)
           /\ filter_value_types # {}

(***************************************************************************)
(* CustomPagination.get_paginated_response (views.py 61-100).              *)
(* results[city_name] is the dictionary of one city: its "city_name" entry *)
(* and, under types, its entries by value type.  A dictionary with string  *)
(* keys is a function on its keys; {} is the function on no key.           *)
(***************************************************************************)
\* views.py 84-90: the summary of one row
Summary(data_stat) ==
    [average        |-> data_stat.average,
     minimum        |-> data_stat.minimum,
     maximum        |-> data_stat.maximum,
     start_datetime |-> data_stat.start_datetime,
     end_datetime   |-> data_stat.end_datetime]

\* dict.update
Update(d, e) ==
    [key \in (DOMAIN d) \cup (DOMAIN e) |->
        IF key \in DOMAIN e THEN e[key] ELSE d[key]]

\* views.py 80-91 gone wrong: the list grows at its head, and the
\* dictionary keeps what it has
IncludeResultReversed(values, summary, ranged) ==
    IF ranged THEN <<summary>> \o values ELSE Update(summary, values)

\* views.py 80-91: values.append(summary) or values.update(summary)
IncludeResult(values, summary, ranged) ==
    IF ranged THEN Append(values, summary) ELSE Update(values, summary)

\* views.py 67-91: one turn of the loop over the page
ShapeRow ==
    /\ shape_pc = "loop"
    /\ shape_k <= Len(data_stats)
    /\ LET data_stat  == data_stats[shape_k]
           city_name  == data_stat.city_name
           value_type == data_stat.value_type
           ranged     == Truthy(shape_from)
           \* 71-75: a city met for the first time
           r1 == IF city_name \in DOMAIN results
                 THEN results
                 ELSE [c \in (DOMAIN results) \cup {city_name} |->
                          IF c = city_name
                          THEN [city_name |-> city_name,
                                types |-> [t \in {value_type} |-> <<>>]]
                          ELSE results[c]]
           \* 77-78: a value type met for the first time in its city
           types1 == r1[city_name].types
           types2 == IF value_type \in DOMAIN types1
                     THEN types1
                     ELSE [t \in (DOMAIN types1) \cup {value_type} |->
                              IF t = value_type THEN <<>> ELSE types1[t]]
           \* 80-91
           types3 == [types2 EXCEPT ![value_type] =
                         IncludeResult(@, Summary(data_stat), ranged)]
       IN  /\ results' = [r1 EXCEPT ![city_name].types = types3]
           /\ city_order' = IF city_name \in DOMAIN results
                            THEN city_order
                            ELSE Append(city_order, city_name)
    /\ shape_k' = shape_k + 1
    /\ UNCHANGED <<shape_from, data_stats, shape_pc, page_response>>
    /\ UNCHANGED <<regexVars, statsVars, fleetVars>>

\* views.py 93-100 (the next and previous links belong to the paginator)
ShapeRespond ==
    /\ shape_pc = "loop"
    /\ shape_k > Len(data_stats)
    /\ shape_pc' = "responded"
    /\ page_response' =
           [count   |-> Cardinality(DOMAIN results),
            results |-> [n \in 1..Len(city_order) |-> results[city_order[n]]]]
    /\ UNCHANGED <<shape_from, data_stats, shape_k, results, city_order>>
    /\ UNCHANGED <<regexVars, statsVars, fleetVars>>

NextShape == ShapeRow \/ ShapeRespond

\* a serialized row of the aggregation: bucket n of a city and value type
StatRow(city, vt, n) ==
    [city_name      |-> city,
     value_type     |-> vt,
     average        |-> [sum |-> 100 * n, count |-> n],
     minimum        |-> 10 * n,
     maximum        |-> 100 * n,
     start_datetime |-> Ts(2023, 1, n, 0, 0, 0),
     end_datetime   |-> Ts(2023, 1, n, 23, 0, 0)]

RowPool ==
    {StatRow(c, vt, n) : c \in {Nairobi, DarEsSalaam}, vt \in {P1, humidity},
                         n \in 1..2}

Pages == UNION {[1..n -> RowPool] : n \in 0..MaxPage}

(***************************************************************************)
(* Specification SpecShape: every page of at most MaxPage rows of the pool, *)
(* for a request without "from", with an empty one and with a date (the    *)
(* values get_queryset lets through).                                      *)
(***************************************************************************)
InitShape ==
    /\ shape_from \in {None, <<>>, Jan1}
    /\ data_stats \in Pages
    /\ shape_k = 1
    /\ results = <<>>
    /\ city_order = <<>>
    /\ shape_pc = "loop"
    /\ page_response = <<>>
    /\ RegexIdle /\ StatsIdle /\ FleetIdle

SpecShape == InitShape /\ [][NextShape]_vars

\* the places of the first n rows of the page that are of a city and value type
PlacesOf(city, vt, n) ==
    {j \in 1..n : data_stats[j].city_name = city /\ data_stats[j].value_type = vt}

\* the j-th least element of a set of numbers
RECURSIVE NthOf(_, _)
NthOf(S, j) == IF j = 1 THEN MinOf(S) ELSE NthOf(S \ {MinOf(S)}, j - 1)

\* C6: once the rows before shape_k are shaped, each (city, value type)
\* among them is mapped, when "from" was given, to the sequence of the
\* summaries of its rows in the order of the page, and otherwise to the
\* summary of the last of its rows; no other city or value type is mapped.
C6_ShapeOfPage ==
    shape_pc \in {"loop", "responded"} =>
        LET n == shape_k - 1
        IN  /\ DOMAIN results = {data_stats[j].city_name : j \in 1..n}
            /\ \A c \in DOMAIN results :
                  /\ results[c].city_name = c
                  /\ DOMAIN results[c].types =
                         {data_stats[j].value_type :
                             j \in {l \in 1..n : data_stats[l].city_name = c}}
                  /\ \A vt \in DOMAIN results[c].types :
                        LET places == PlacesOf(c, vt, n)
                            inner  == results[c].types[vt]
                        IN  IF Truthy(shape_from)
                            THEN /\ Len(inner) = Cardinality(places)
                                 /\ \A j \in 1..Len(inner) :
                                       inner[j] =
                                           Summary(data_stats[NthOf(places, j)])
                            ELSE inner = Summary(data_stats[MaxOf(places)])

\* a ranged response whose Nairobi P1 entry holds two different summaries,
\* those of the first and the last row of the page, in that order
C6_Witness ==
    /\ shape_pc = "responded"
    /\ Truthy(shape_from)
    /\ Len(data_stats) = 3
    /\ data_stats[2].city_name = DarEsSalaam
    /\ page_response.count = 2
    /\ Len(page_response.results[1].types[P1]) = 2
    /\ page_response.results[1].types[P1][1] = Summary(data_stats[1])
    /\ page_response.results[1].types[P1][2] = Summary(data_stats[3])
    /\ data_stats[1] # data_stats[3]

(***************************************************************************)
(* NodesView.list (views.py 202-278).                                      *)
(* A snapshot (LastActiveNodes row) names its node, the location at the    *)
(* last activity and last_data_received_at, 0 standing for a null; a Node  *)
(* row holds its uid, its current location and the ids of its sensors.     *)
(* An optional dictionary (moved_to) is the set of at most one record.     *)
(* The uid of a node is its id: the view only copies it.                   *)
(***************************************************************************)
\* str.lower() on one character
LowerChar(c) ==
    IF \E n \in 1..26 : UpperCase[n] = c
    THEN LowerCase[CHOOSE n \in 1..26 : UpperCase[n] = c]
    ELSE c

IsWordChar(c) ==
    \/ IsDigit(c)
    \/ c = "_"
    \/ \E n \in 1..26 : LowerCase[n] = c \/ UpperCase[n] = c

RECURSIVE Strip(_)
Strip(s) ==
    IF Len(s) >= 1 /\ s[1] = " " THEN Strip(Tail(s))
    ELSE IF Len(s) >= 1 /\ s[Len(s)] = " " THEN Strip(SubSeq(s, 1, Len(s) - 1))
    ELSE s

\* re.sub(r'[-\s]+', '-', s): every run of hyphens and blanks becomes one hyphen
RECURSIVE Hyphenate(_)
Hyphenate(s) ==
    IF Len(s) = 0 THEN s
    ELSE IF s[1] \in {"-", " "}
    THEN IF Len(s) >= 2 /\ s[2] \in {"-", " "}
         THEN Hyphenate(Tail(s))
         ELSE <<"-">> \o Hyphenate(Tail(s))
    ELSE <<s[1]>> \o Hyphenate(Tail(s))

\* django.utils.text.slugify on ASCII text (views.py 253, 271): drop what is
\* no word character, blank or hyphen; strip; lower-case; hyphenate
Slugify(s) ==
    LET kept  == SelectSeq(s, LAMBDA c : IsWordChar(c) \/ c \in {"-", " "})
        stripped == Strip(kept)
        lowered  == [n \in 1..Len(stripped) |-> LowerChar(stripped[n])]
    IN  Hyphenate(lowered)

\* views.py 265-273 and 247-255: a location as the response shows it
LocationView(l) ==
    [name      |-> SensorLocation[l].location,
     longitude |-> SensorLocation[l].longitude,
     latitude  |-> SensorLocation[l].latitude,
     city      |-> [name |-> SensorLocation[l].city,
                    slug |-> Slugify(SensorLocation[l].city)]]

\* views.py 207-209: the node of the snapshot is found if it has a sensor
NodeFound(last_active) == node_table[last_active.node].sensors # {}

\* views.py 222-231: the rows of the node at the snapshot's location in the
\* last five minutes before last_data_received_at that hold a number
StatsRows(last_active) ==
    {r \in db :
        /\ r.sensor \in node_table[last_active.node].sensors
        /\ r.location = last_active.location
        /\ r.timestamp >= last_active.last_data_received_at - 5 * 60
        /\ r.timestamp <= last_active.last_data_received_at
        /\ r.value_type # <<"t", "i", "m", "e", "s", "t", "a", "m", "p">>
        /\ OrmNumericFilter(r.value)}

\* views.py 232-241: one row per value type and sensor
StatsOf(last_active) ==
    IF last_active.last_data_received_at = 0 THEN {}
    ELSE LET rows == StatsRows(last_active)
             keys == {<<r.value_type, r.sensor>> : r \in rows}
         IN  {LET G == {r \in rows : <<r.value_type, r.sensor>> = key}
              IN  [value_type     |-> key[1],
                   sensor_id      |-> key[2],
                   start_datetime |-> MinOf({r.timestamp : r \in G}),
                   end_datetime   |-> MaxOf({r.timestamp : r \in G}),
                   average        |-> [sum |-> SumValues(G),
                                       count |-> Cardinality(G)],
                   minimum        |-> MinOf({CastFloat(r.value) : r \in G}),
                   maximum        |-> MaxOf({CastFloat(r.value) : r \in G})]
              : key \in keys}

\* views.py 246-255 gone wrong: moved_to shows the location of the snapshot
MovedToSnapshot(last_active, node) ==
    IF last_active.location # node.location
    THEN {LocationView(last_active.location)}
    ELSE {}

\* views.py 216, 246-255
MovedTo(last_active, node) ==
    IF last_active.location # node.location
    THEN {LocationView(node.location)}
    ELSE {}

\* views.py 257-277
NodeStatus(last_active, node) ==
    LET moved_to == MovedTo(last_active, node)
    IN  [node_moved |-> moved_to # {},
         moved_to   |-> moved_to,
         node       |-> [uid |-> node.uid, id |-> last_active.node],
         location   |-> LocationView(last_active.location),
         last_data_received_at |-> last_active.last_data_received_at,
         stats      |-> StatsOf(last_active)]

\* views.py 205-277: one turn of the loop.  QuerySet.get() raises
\* Node.DoesNotExist when the filter leaves no row, which ends the request.
ListStep ==
    /\ fleet_pc = "loop"
    /\ fleet_k <= Len(last_active_nodes)
    /\ LET last_active == last_active_nodes[fleet_k]
       IN  IF NodeFound(last_active)
           THEN /\ nodes' = Append(nodes, NodeStatus(last_active,
                                       node_table[last_active.node]))
                /\ fleet_k' = fleet_k + 1
                /\ UNCHANGED <<fleet_pc, fleet_response>>
           ELSE /\ fleet_pc' = "error"
                /\ fleet_response' = [status |-> 500, body |-> "DoesNotExist"]
                /\ UNCHANGED <<nodes, fleet_k>>
    /\ UNCHANGED <<last_active_nodes, node_table>>
    /\ UNCHANGED <<regexVars, statsVars, shapeVars>>

\* views.py 278
ListRespond ==
    /\ fleet_pc = "loop"
    /\ fleet_k > Len(last_active_nodes)
    /\ fleet_pc' = "responded"
    /\ fleet_response' = [status |-> 200, body |-> nodes]
    /\ UNCHANGED <<last_active_nodes, node_table, fleet_k, nodes>>
    /\ UNCHANGED <<regexVars, statsVars, shapeVars>>

NextFleet == ListStep \/ ListRespond

(***************************************************************************)
(* Specification SpecFleet: at most MaxNodes nodes, one snapshot each; a   *)
(* node has one sensor (of its own id) or none, and stands at one of two   *)
(* locations now and at its last activity; the database is the pool.       *)
(***************************************************************************)
FleetLocations == {1, 3}

LastSeen == {0, Ts(2023, 1, 3, 10, 15, 30)}

InitFleet ==
    /\ \E n \in 1..MaxNodes :
          /\ node_table \in
                 {[k \in 1..n |-> [uid |-> k, location |-> f[k].location,
                                   sensors |-> IF f[k].has THEN {k} ELSE {}]] :
                     f \in [1..n -> [location : FleetLocations,
                                     has : BOOLEAN]]}
          /\ last_active_nodes \in
                 {[k \in 1..n |-> [node |-> k, location |-> g[k].location,
                                   last_data_received_at |-> g[k].last]] :
                     g \in [1..n -> [location : FleetLocations,
                                     last : LastSeen]]}
    /\ fleet_k = 1
    /\ nodes = <<>>
    /\ fleet_pc = "loop"
    /\ fleet_response = <<>>
    /\ RegexIdle /\ ShapeIdle
    /\ sensor_type = "air"
    /\ query_params = [from |-> None, to |-> None, value_type |-> None,
                       city |-> None, avg |-> None]
    /\ now \in Nows
    /\ db = ReadingPool
    /\ pc = "idle"
    /\ from_date = 0
    /\ to_date = 0
    /\ filter_value_types = {}
    /\ city_names = <<>>
    /\ outcome = "pending"
    /\ detail = ""
    /\ executed = FALSE
    /\ res = {}

SpecFleet == InitFleet /\ [][NextFleet]_vars

\* the slugs of the cities, as Django gives them
KnownSlug(city) ==
    CASE city = Nairobi -> <<"n", "a", "i", "r", "o", "b", "i">>
      [] city = DarEsSalaam -> <<"d", "a", "r", "-", "e", "s", "-", "s", "a", "l", "a", "a", "m">>

\* a location as the claim describes it
Described(l) ==
    [name      |-> SensorLocation[l].location,
     longitude |-> SensorLocation[l].longitude,
     latitude  |-> SensorLocation[l].latitude,
     city      |-> [name |-> SensorLocation[l].city,
                    slug |-> KnownSlug(SensorLocation[l].city)]]

\* C7: the NodeStatus emitted for a snapshot has node_moved true and
\* moved_to describing the node's current location if and only if the
\* snapshot's location id differs from the node's; otherwise node_moved is
\* false and moved_to is null; location always describes the snapshot's
\* location.  (The k-th NodeStatus is that of the k-th snapshot, no
\* snapshot being passed over.)
C7_MovedIffLocationsDiffer ==
    \A k \in 1..Len(nodes) :
        LET last_active == last_active_nodes[k]
            node        == node_table[last_active.node]
            status      == nodes[k]
        IN  /\ node.sensors # {}
            /\ status.node.id = last_active.node
            /\ status.node_moved = (last_active.location # node.location)
            /\ status.moved_to = IF last_active.location # node.location
                                 THEN {Described(node.location)}
                                 ELSE {}
            /\ status.location = Described(last_active.location)

\* a response with a node that moved and a node that did not
C7_Witness ==
    /\ fleet_pc = "responded"
    /\ fleet_response.status = 200
    /\ \E k \in 1..Len(fleet_response.body) :
          /\ fleet_response.body[k].node_moved
          /\ fleet_response.body[k].moved_to = {Described(3)}
          /\ fleet_response.body[k].location = Described(1)
    /\ \E k \in 1..Len(fleet_response.body) :
          /\ ~fleet_response.body[k].node_moved
          /\ fleet_response.body[k].moved_to = {}

\* C8: a snapshot whose node has no sensor is passed over: the request
\* ends in a response that holds no NodeStatus for that node and one for
\* every snapshot whose node has a sensor.  (Stated for the fleets in
\* which the node of some snapshot has a sensor.)
C8_SensorlessNodeSkipped ==
    (/\ fleet_pc \in {"responded", "error"}
     /\ \E k \in 1..Len(last_active_nodes) :
            node_table[last_active_nodes[k].node].sensors # {}) =>
        /\ fleet_response.status = 200
        /\ \A k \in 1..Len(last_active_nodes) :
              (node_table[last_active_nodes[k].node].sensors # {})
                  <=> \E j \in 1..Len(fleet_response.body) :
                          fleet_response.body[j].node.id =
                              last_active_nodes[k].node

=============================================================================
